---- MODULE Spec2Model ----
(***************************************************************************)
(* State-machine model of the nearme_contract Anchor program               *)
(* (programs/nearme_contract/src/lib.rs): the ledger of LocationProof      *)
(* accounts and the two instructions create_location_proof and             *)
(* close_location_proof, each with the account validation that its         *)
(* #[derive(Accounts)] struct performs before the handler body runs.       *)
(*                                                                         *)
(* A program derived address is modelled by its hash preimage: the seed    *)
(* bytes concatenated in order, followed by the bump byte.  The runtime     *)
(* hashes exactly that concatenation (with the program id), so two seed    *)
(* lists give the same address exactly when their concatenations agree.    *)
(***************************************************************************)
EXTENDS Integers, Sequences, FiniteSets, TLC

VARIABLES
    store,    \* the ledger: address -> LocationProof account data, or NoAccount
    creator,  \* history: address -> identity that paid for the live account
    clock,    \* Clock sysvar unix_timestamp seen by the latest instruction
    last,     \* the latest instruction: its inputs and its outcome
    events,   \* LocationVerifiedEvent(s) emitted by the latest instruction
    inflight, \* instructions submitted together, each with its outcome so far
    derived   \* a pair of merchant ids and the addresses derived for them

vars == <<store, creator, clock, last, events, inflight, derived>>

----------------------------------------------------------------------------
(* Bounds of the model *)

\* Largest unix_timestamp the host clock reaches.
MaxClock == 2

\* Largest number of instructions submitted together.
MaxInFlight == 3

\* Longest merchant id enumerated byte by byte for address derivation.
MaxIdLen == 2

----------------------------------------------------------------------------
(* Program constants *)

\* lib.rs:6  const MAX_MERCHANT_ID_LEN: usize = 32
MAX_MERCHANT_ID_LEN == 32

\* Longest seed the runtime's address derivation accepts; it applies to the
\* seed merchant_id.as_bytes() of lib.rs:112.
MAX_SEED_LEN == 32

\* b"proof"
ProofTag == <<112, 114, 111, 111, 102>>

LAT_MIN == -90000000
LAT_MAX == 90000000
LNG_MIN == -180000000
LNG_MAX == 180000000

----------------------------------------------------------------------------
(* Input domains *)

Rep(n, b) == [i \in 1..n |-> b]

\* Merchant ids of 0, 32 and 33 bytes.
MerchantIds == { Rep(0, 97), Rep(MAX_MERCHANT_ID_LEN, 97), Rep(MAX_MERCHANT_ID_LEN + 1, 97) }

\* <<lat, lng>> inputs: every range boundary, and the first value outside.
Coordinates ==
    { <<LAT_MIN, LNG_MIN>>, <<LAT_MAX, LNG_MAX>>,
      <<LAT_MAX + 1, LNG_MAX>>, <<LAT_MIN - 1, LNG_MIN>>,
      <<LAT_MAX, LNG_MIN - 1>>, <<LAT_MIN, LNG_MAX + 1>>,
      <<LAT_MAX + 1, LNG_MIN - 1>> }

\* "server" is the server keypair; "other" is any other keypair.
Identities == { "server", "other" }

Timestamps == 1..MaxClock

----------------------------------------------------------------------------
(* Outcomes of an instruction *)

Ok == "Ok"
MerchantIdTooLong == "MerchantIdTooLong"
InvalidLatitude == "InvalidLatitude"
InvalidLongitude == "InvalidLongitude"
\* system program: the account to initialise is already in use
AlreadyExists == "AlreadyExists"
\* Account<LocationProof>: the account passed holds no initialised data
NotFound == "NotFound"
\* Signer: the account passed did not sign the transaction
AccountNotSigner == "AccountNotSigner"
\* seeds constraint: the account passed is not the address the seeds give
ConstraintSeeds == "ConstraintSeeds"
\* address derivation aborted the program
ProgramFailedToComplete == "ProgramFailedToComplete"

\* An address that holds no account: no discriminator, zeroed data.
NoAccount ==
    [ initialized |-> FALSE, lat |-> 0, lng |-> 0, verified_at |-> 0, bump |-> 0 ]
\* Derivation found no address.
NoPda == [ found |-> FALSE, address |-> << >>, bump |-> 0 ]
NoAddress == << >>
NoIdentity == "NoIdentity"

----------------------------------------------------------------------------
(* Address derivation *)

RECURSIVE Concat(_)
Concat(seeds) ==
    IF seeds = <<>> THEN <<>> ELSE Head(seeds) \o Concat(Tail(seeds))

\* The bump is the first byte, counting down from 255, that takes the hash
\* off the curve: a fixed function of the seed bytes.
BumpOf(bytes) == 255 - (Len(bytes) % 3)

\* Pubkey::create_program_address(seeds ++ [bump])
create_program_address(seeds, bump) == Concat(seeds) \o <<bump>>

\* Pubkey::find_program_address(seeds): no address for an oversized seed.
find_program_address(seeds) ==
    IF \E i \in 1..Len(seeds) : Len(seeds[i]) > MAX_SEED_LEN
    THEN NoPda
    ELSE [ found |-> TRUE,
           address |-> create_program_address(seeds, BumpOf(Concat(seeds))),
           bump |-> BumpOf(Concat(seeds)) ]

\* Variant: the create seeds leave the merchant id out.
CreateSeeds_NoId(merchant_id) == << ProofTag >>

\* CreateLocationProof: seeds = [b"proof", merchant_id.as_bytes()]
CreateSeeds(merchant_id) == << ProofTag, merchant_id >>

\* Variant: the close seeds carry a constant second seed.
CloseSeeds_Tagged == << ProofTag, << 1 >> >>

\* CloseLocationProof: seeds = [b"proof"]
CloseSeeds == << ProofTag >>

\* Address of the account a Create for merchant_id initialises: the
\* derivation Create performs, tabulated over the input domain.
PdaTable == [ m \in MerchantIds |-> find_program_address(CreateSeeds(m)) ]

ProofAddress(merchant_id) == PdaTable[merchant_id].address

Derivable(merchant_id) == PdaTable[merchant_id].found

\* Every address a client can derive for a merchant id.
Addresses == { ProofAddress(m) : m \in { x \in MerchantIds : Derivable(x) } }

----------------------------------------------------------------------------
(* The LocationProof account *)

LocationProof(lat, lng, verified_at, bump) ==
    [ initialized |-> TRUE,
      lat |-> lat, lng |-> lng, verified_at |-> verified_at, bump |-> bump ]

Live(st, a) == st[a].initialized

----------------------------------------------------------------------------
(* create_location_proof *)

\* Variant: the latitude check lacks its lower bound.
create_location_proof_NoLatMin(lat, lng, merchant_id) ==
    IF ~(Len(merchant_id) <= MAX_MERCHANT_ID_LEN) THEN MerchantIdTooLong
    ELSE IF ~(lat <= LAT_MAX) THEN InvalidLatitude
    ELSE IF ~(lng >= LNG_MIN /\ lng <= LNG_MAX) THEN InvalidLongitude
    ELSE Ok

\* Variant: longitude is checked before latitude.
create_location_proof_LngFirst(lat, lng, merchant_id) ==
    IF ~(Len(merchant_id) <= MAX_MERCHANT_ID_LEN) THEN MerchantIdTooLong
    ELSE IF ~(lng >= LNG_MIN /\ lng <= LNG_MAX) THEN InvalidLongitude
    ELSE IF ~(lat >= LAT_MIN /\ lat <= LAT_MAX) THEN InvalidLatitude
    ELSE Ok

\* The require! checks of the handler body, in order.
create_location_proof(lat, lng, merchant_id) ==
    IF ~(Len(merchant_id) <= MAX_MERCHANT_ID_LEN) THEN MerchantIdTooLong
    ELSE IF ~(lat >= LAT_MIN /\ lat <= LAT_MAX) THEN InvalidLatitude
    ELSE IF ~(lng >= LNG_MIN /\ lng <= LNG_MAX) THEN InvalidLongitude
    ELSE Ok

\* Variant: proof is declared init_if_needed, so a live account is reused.
CreateLocationProof_IfNeeded(st, signed, merchant_id) ==
    IF ~signed THEN AccountNotSigner
    ELSE IF ~Derivable(merchant_id) THEN ProgramFailedToComplete
    ELSE Ok

\* Validation of the CreateLocationProof accounts, which runs before the
\* handler: payer is a Signer; proof is derived from the seeds and
\* initialised, which fails when the address already holds an account.
CreateLocationProof(st, signed, merchant_id) ==
    IF ~signed THEN AccountNotSigner
    ELSE IF ~Derivable(merchant_id) THEN ProgramFailedToComplete
    ELSE IF Live(st, ProofAddress(merchant_id)) THEN AlreadyExists
    ELSE Ok

\* Outcome of the whole instruction.
CreateResult(st, signed, lat, lng, merchant_id) ==
    IF CreateLocationProof(st, signed, merchant_id) # Ok
    THEN CreateLocationProof(st, signed, merchant_id)
    ELSE create_location_proof(lat, lng, merchant_id)

\* Variant: the handler stores lat and lng in each other's field.
CreatedProof_Swapped(lat, lng, now, merchant_id) ==
    LocationProof(lng, lat, now, PdaTable[merchant_id].bump)

\* The account data the handler writes (lib.rs:51-54).
CreatedProof(lat, lng, now, merchant_id) ==
    LocationProof(lat, lng, now, PdaTable[merchant_id].bump)

\* Variant: the event carries a zero timestamp.
LocationVerifiedEvent_NoTimestamp(lat, lng, now) ==
    [ lat |-> lat, lng |-> lng, timestamp |-> 0 ]

\* emit!(LocationVerifiedEvent { lat, lng, timestamp })
LocationVerifiedEvent(lat, lng, now) ==
    [ lat |-> lat, lng |-> lng, timestamp |-> now ]

CreateCall(payer, signed, lat, lng, merchant_id, now) ==
    LET r == CreateResult(store, signed, lat, lng, merchant_id)
        a == IF Derivable(merchant_id) THEN ProofAddress(merchant_id) ELSE NoAddress
    IN  /\ clock' = now
        /\ last' = [ op |-> "Create", merchant_id |-> merchant_id, account |-> a,
                     lat |-> lat, lng |-> lng, caller |-> payer,
                     signed |-> signed, result |-> r ]
        /\ IF r = Ok
           THEN /\ store' = [store EXCEPT ![a] = CreatedProof(lat, lng, now, merchant_id)]
                /\ creator' = [creator EXCEPT ![a] = payer]
                /\ events' = << LocationVerifiedEvent(lat, lng, now) >>
           ELSE /\ UNCHANGED <<store, creator>>
                /\ events' = << >>

Create ==
    \E payer \in Identities, signed \in BOOLEAN, c \in Coordinates,
       merchant_id \in MerchantIds, now \in Timestamps :
        /\ now >= clock
        /\ CreateCall(payer, signed, c[1], c[2], merchant_id, now)
        /\ UNCHANGED <<inflight, derived>>

----------------------------------------------------------------------------
(* close_location_proof *)

\* Variant: proof is not required to be initialised.
CloseLocationProof_Unchecked(st, account, signed) ==
    IF ~signed THEN AccountNotSigner
    ELSE IF create_program_address(CloseSeeds, st[account].bump) # account
         THEN ConstraintSeeds
    ELSE Ok

\* Variant: proof carries no seeds constraint.
CloseLocationProof_NoSeeds(st, account, signed) ==
    IF ~Live(st, account) THEN NotFound
    ELSE IF ~signed THEN AccountNotSigner
    ELSE Ok

\* Validation of the CloseLocationProof accounts: proof is an initialised
\* LocationProof; authority is a Signer; proof is the address given by
\* seeds = [b"proof"] and bump = proof.bump.
CloseLocationProof(st, account, signed) ==
    IF ~Live(st, account) THEN NotFound
    ELSE IF ~signed THEN AccountNotSigner
    ELSE IF create_program_address(CloseSeeds, st[account].bump) # account
         THEN ConstraintSeeds
    ELSE Ok

\* The handler body only logs.
close_location_proof == Ok

CloseResult(st, account, signed) ==
    IF CloseLocationProof(st, account, signed) # Ok
    THEN CloseLocationProof(st, account, signed)
    ELSE close_location_proof

\* Variant: the close drains the account but leaves its discriminator.
CloseAccount_KeepDiscriminator(st, account) ==
    [st EXCEPT ![account] = [NoAccount EXCEPT !.initialized = TRUE]]

\* close = authority: at exit the account is emptied and handed back.
CloseAccount(st, account) == [st EXCEPT ![account] = NoAccount]

CloseCall(account, authority, signed, now) ==
    LET r == CloseResult(store, account, signed)
    IN  /\ clock' = now
        /\ last' = [ op |-> "Close", merchant_id |-> << >>, account |-> account,
                     lat |-> 0, lng |-> 0, caller |-> authority,
                     signed |-> signed, result |-> r ]
        /\ events' = << >>
        /\ IF r = Ok
           THEN /\ store' = CloseAccount(store, account)
                /\ creator' = [creator EXCEPT ![account] = NoIdentity]
           ELSE UNCHANGED <<store, creator>>

Close ==
    \E account \in Addresses, authority \in Identities, signed \in BOOLEAN,
       now \in Timestamps :
        /\ now >= clock
        /\ CloseCall(account, authority, signed, now)
        /\ UNCHANGED <<inflight, derived>>

----------------------------------------------------------------------------
(* The system *)

\* No pair of merchant ids under derivation.
NoDerivation ==
    [ a |-> << >>, b |-> << >>, ka |-> NoPda, kb |-> NoPda, done |-> FALSE ]

Init ==
    /\ store = [a \in Addresses |-> NoAccount]
    /\ creator = [a \in Addresses |-> NoIdentity]
    /\ clock = 1
    /\ last = [ op |-> "None", merchant_id |-> << >>, account |-> NoAddress,
                lat |-> 0, lng |-> 0, caller |-> NoIdentity,
                signed |-> FALSE, result |-> Ok ]
    /\ events = << >>
    /\ inflight = << >>
    /\ derived = NoDerivation

Next == Create \/ Close

Spec == Init /\ [][Next]_vars

----------------------------------------------------------------------------
(* Instructions submitted together.  The host runs each instruction as one  *)
(* atomic unit and in an order of its own choosing: a batch of signed       *)
(* instructions on the address of one merchant id is submitted against the  *)
(* empty ledger and its instructions are executed one at a time, in any     *)
(* order.                                                                   *)

Pending == "Pending"

\* The coordinate inputs that pass validation.
ValidCoordinates ==
    { c \in Coordinates : create_location_proof(c[1], c[2], << >>) = Ok }

\* The signed instructions a batch on merchant id m is made of.
Calls(m) ==
    { [ op |-> "Create", merchant_id |-> m, account |-> ProofAddress(m),
        lat |-> c[1], lng |-> c[2], caller |-> p, outcome |-> Pending ] :
          c \in ValidCoordinates, p \in Identities }
    \cup
    { [ op |-> "Close", merchant_id |-> m, account |-> ProofAddress(m),
        lat |-> 0, lng |-> 0, caller |-> p, outcome |-> Pending ] :
          p \in Identities }

InitConcurrent ==
    /\ store = [a \in Addresses |-> NoAccount]
    /\ creator = [a \in Addresses |-> NoIdentity]
    /\ clock = 1
    /\ last = [ op |-> "None", merchant_id |-> << >>, account |-> NoAddress,
                lat |-> 0, lng |-> 0, caller |-> NoIdentity,
                signed |-> FALSE, result |-> Ok ]
    /\ events = << >>
    /\ derived = NoDerivation
    /\ \E m \in { x \in MerchantIds : Derivable(x) }, n \in 1..MaxInFlight :
          inflight \in [1..n -> Calls(m)]

ExecuteCreate ==
    \E i \in 1..Len(inflight), now \in Timestamps :
        /\ inflight[i].outcome = Pending
        /\ inflight[i].op = "Create"
        /\ now >= clock
        /\ CreateCall(inflight[i].caller, TRUE, inflight[i].lat, inflight[i].lng,
                      inflight[i].merchant_id, now)
        /\ inflight' = [inflight EXCEPT ![i].outcome =
                            CreateResult(store, TRUE, inflight[i].lat,
                                         inflight[i].lng, inflight[i].merchant_id)]
        /\ UNCHANGED derived

ExecuteClose ==
    \E i \in 1..Len(inflight), now \in Timestamps :
        /\ inflight[i].outcome = Pending
        /\ inflight[i].op = "Close"
        /\ now >= clock
        /\ CloseCall(inflight[i].account, inflight[i].caller, TRUE, now)
        /\ inflight' = [inflight EXCEPT ![i].outcome =
                            CloseResult(store, inflight[i].account, TRUE)]
        /\ UNCHANGED derived

NextConcurrent == ExecuteCreate \/ ExecuteClose

SpecConcurrent == InitConcurrent /\ [][NextConcurrent]_vars

----------------------------------------------------------------------------
(* Address derivation on its own: a pair of merchant ids is drawn and the   *)
(* derivation of CreateLocationProof is applied to each.                    *)

IdBytes == { 97, 98 }

\* Every id of at most MaxIdLen bytes, and ids of 32 and 33 bytes.
DeriveIds ==
    UNION { [1..n -> IdBytes] : n \in 0..MaxIdLen }
    \cup { Rep(MAX_MERCHANT_ID_LEN, b) : b \in IdBytes }
    \cup { Rep(MAX_MERCHANT_ID_LEN + 1, 97) }

InitDerive ==
    /\ store = [a \in Addresses |-> NoAccount]
    /\ creator = [a \in Addresses |-> NoIdentity]
    /\ clock = 1
    /\ last = [ op |-> "None", merchant_id |-> << >>, account |-> NoAddress,
                lat |-> 0, lng |-> 0, caller |-> NoIdentity,
                signed |-> FALSE, result |-> Ok ]
    /\ events = << >>
    /\ inflight = << >>
    /\ \E m1 \in DeriveIds, m2 \in DeriveIds :
          derived = [NoDerivation EXCEPT !.a = m1, !.b = m2]

Derive ==
    /\ ~derived.done
    /\ derived' = [derived EXCEPT
                      !.ka = find_program_address(CreateSeeds(derived.a)),
                      !.kb = find_program_address(CreateSeeds(derived.b)),
                      !.done = TRUE]
    /\ UNCHANGED <<store, creator, clock, last, events, inflight>>

NextDerive == Derive

SpecDerive == InitDerive /\ [][NextDerive]_vars

----------------------------------------------------------------------------
(* Vocabulary of the properties *)

LatInRange(lat) == lat >= LAT_MIN /\ lat <= LAT_MAX
LngInRange(lng) == lng >= LNG_MIN /\ lng <= LNG_MAX

\* The step is a Create whose payer signed: the payer is the caller.
CreateBy(l) == l.op = "Create" /\ l.signed

\* The step is a Close whose authority signed: the authority is the caller.
CloseBy(l) == l.op = "Close" /\ l.signed

\* The Create names a merchant id within the 32-byte domain.
ValidId(l) == Len(l.merchant_id) <= MAX_MERCHANT_ID_LEN

----------------------------------------------------------------------------
(* C1 *)

\* C1: a Create for a merchant_id that already has a live record fails with
\* AlreadyExists, whatever its lat, lng and caller, and leaves the whole
\* ledger, the existing record included, as it was; so the one address of a
\* merchant_id never comes to hold a second record.
C1_SecondCreateRejected ==
    [][ (CreateBy(last') /\ ValidId(last') /\ Live(store, last'.account))
        => (last'.result = AlreadyExists /\ store' = store) ]_vars

\* A Create by another caller, with an out-of-range latitude, was rejected
\* with AlreadyExists while the record created first is live.
C1_Witness ==
    /\ last.op = "Create" /\ last.signed /\ last.result = AlreadyExists
    /\ Live(store, last.account)
    /\ last.caller # creator[last.account]
    /\ ~LatInRange(last.lat)
    /\ LatInRange(store[last.account].lat)

----------------------------------------------------------------------------
(* C2 *)

\* C2: a Close of a live record by a caller that is not the identity that
\* created it fails, and the record stays as it was.  (The error kind is left
\* open: any failure would do.)
C2_NonOwnerCloseRejected ==
    [][ (CloseBy(last') /\ Live(store, last'.account)
            /\ last'.caller # creator[last'.account])
        => (last'.result # Ok /\ store' = store) ]_vars

----------------------------------------------------------------------------
(* C3 *)

\* C3: every live record has lat in [-90,000,000, 90,000,000] and lng in
\* [-180,000,000, 180,000,000].
C3_LiveRecordsInBounds ==
    \A a \in Addresses :
        Live(store, a) => (LatInRange(store[a].lat) /\ LngInRange(store[a].lng))

\* A record sits on the upper boundaries while a Create with an out-of-range
\* coordinate has just been rejected.
C3_Witness ==
    /\ \E a \in Addresses :
          Live(store, a) /\ store[a].lat = LAT_MAX /\ store[a].lng = LNG_MAX
    /\ last.op = "Create"
    /\ last.result \in { InvalidLatitude, InvalidLongitude }

----------------------------------------------------------------------------
(* C4 *)

\* C4: no instruction changes a record in place: an address that holds a
\* live record before and after a step holds the same lat, lng, verified_at
\* and bump.
C4_NeverMutatedInPlace ==
    [][ \A a \in Addresses :
            (Live(store, a) /\ Live(store', a)) => store'[a] = store[a] ]_vars

\* A record created earlier is live while a later instruction on another
\* address has succeeded.
C4_Witness ==
    \E a \in Addresses :
        /\ Live(store, a)
        /\ store[a].verified_at < clock
        /\ last.result = Ok
        /\ last.account # a

----------------------------------------------------------------------------
(* C5 *)

\* C5: a Close of a live record by the identity that created it succeeds and
\* the record is gone; a valid Create for the same address right after a
\* successful Close succeeds and stamps the clock value of that Create.
C5_OwnerCloseThenRecreate ==
    [][ /\ (CloseBy(last') /\ Live(store, last'.account)
                /\ last'.caller = creator[last'.account])
            => (last'.result = Ok /\ ~Live(store', last'.account))
        /\ (last.op = "Close" /\ last.result = Ok
                /\ CreateBy(last') /\ last'.account = last.account
                /\ LatInRange(last'.lat) /\ LngInRange(last'.lng))
            => (last'.result = Ok
                /\ store'[last'.account].verified_at = clock')
      ]_vars

----------------------------------------------------------------------------
(* C6 *)

\* C6: Close is keyed as Create is: the address Close derives for a live
\* record is the address Create stored it under; and a successful Close
\* removes the record at that address and leaves every other address as it
\* was.
C6_CloseKeyedAsCreate ==
    [][ /\ \A a \in Addresses :
              Live(store', a)
                  => create_program_address(CloseSeeds, store'[a].bump) = a
        /\ (last'.op = "Close" /\ last'.result = Ok)
            => /\ ~Live(store', last'.account)
               /\ \A a \in Addresses \ { last'.account } : store'[a] = store[a]
      ]_vars

----------------------------------------------------------------------------
(* C7 *)

\* C7: a Close of an address that holds no live record (never created, or
\* closed before) fails with NotFound and leaves the ledger as it was.
C7_CloseOfAbsentIsNotFound ==
    [][ (last'.op = "Close" /\ ~Live(store, last'.account))
        => (last'.result = NotFound /\ store' = store) ]_vars

\* A signed Close by the creator of another, live, record was answered
\* NotFound.
C7_Witness ==
    /\ last.op = "Close" /\ last.signed /\ last.result = NotFound
    /\ ~Live(store, last.account)
    /\ \E a \in Addresses : Live(store, a) /\ creator[a] = last.caller

----------------------------------------------------------------------------
(* C8 *)

\* C8: a Create with lat and lng in range and a merchant_id of at most 32
\* bytes that has no live record succeeds, and the record then stored for the
\* merchant_id has the given lat and lng and verified_at equal to the clock
\* value of the call.
C8_ValidCreateStoresInputs ==
    [][ (CreateBy(last') /\ ValidId(last')
            /\ LatInRange(last'.lat) /\ LngInRange(last'.lng)
            /\ ~Live(store, last'.account))
        => /\ last'.result = Ok
           /\ Live(store', last'.account)
           /\ last'.account = ProofAddress(last'.merchant_id)
           /\ store'[last'.account].lat = last'.lat
           /\ store'[last'.account].lng = last'.lng
           /\ store'[last'.account].verified_at = clock' ]_vars

\* A Create for a 32-byte merchant_id on the lower boundaries succeeded at a
\* clock value later than the initial one.
C8_Witness ==
    /\ last.op = "Create" /\ last.result = Ok
    /\ Len(last.merchant_id) = MAX_MERCHANT_ID_LEN
    /\ last.lat = LAT_MIN /\ last.lng = LNG_MIN
    /\ clock > 1
    /\ store[last.account].verified_at = clock

----------------------------------------------------------------------------
(* C9 *)

\* What validation answers for the coordinates of a Create.
CoordinateVerdict(l) ==
    /\ ~LatInRange(l.lat) => l.result = InvalidLatitude
    /\ (LatInRange(l.lat) /\ ~LngInRange(l.lng)) => l.result = InvalidLongitude
    /\ (LatInRange(l.lat) /\ LngInRange(l.lng))
          => l.result \notin { InvalidLatitude, InvalidLongitude }

----------------------------------------------------------------------------
(* C10 *)

\* C10: a Create with a merchant_id longer than 32 bytes fails with
\* MerchantIdTooLong, and one of exactly 32 bytes is not refused for its
\* length.
C10_OversizedIdRejected ==
    [][ CreateBy(last')
        => /\ Len(last'.merchant_id) > MAX_MERCHANT_ID_LEN
                => last'.result = MerchantIdTooLong
           /\ Len(last'.merchant_id) = MAX_MERCHANT_ID_LEN
                => last'.result \notin { MerchantIdTooLong, ProgramFailedToComplete }
      ]_vars

----------------------------------------------------------------------------
(* C11 *)

\* The validation errors that answer to the invalid inputs of a Create.
ValidationErrors(l) ==
    (IF ~ValidId(l) THEN { MerchantIdTooLong } ELSE { })
    \cup (IF ~LatInRange(l.lat) THEN { InvalidLatitude } ELSE { })
    \cup (IF ~LngInRange(l.lng) THEN { InvalidLongitude } ELSE { })

\* C11: a Create whose merchant_id, lat or lng is invalid fails with the
\* validation error of one of its invalid inputs and touches no record,
\* whether or not the merchant_id has a live record.
C11_ValidationFirst ==
    [][ (CreateBy(last') /\ ValidationErrors(last') # { })
        => (last'.result \in ValidationErrors(last') /\ store' = store) ]_vars

----------------------------------------------------------------------------
(* C12 *)

\* C12: a Create by a caller other than the server identity fails and
\* creates no record, so every live record was created by the server.
C12_OnlyServerCreates ==
    [][ /\ (CreateBy(last') /\ last'.caller # "server")
            => (last'.result # Ok /\ store' = store)
        /\ \A a \in Addresses : Live(store', a) => creator'[a] = "server"
      ]_vars

----------------------------------------------------------------------------
(* C13 *)

\* The error kind of an authorization failure in the enumeration.
Unauthorized == "Unauthorized"

EnumeratedErrors ==
    { MerchantIdTooLong, InvalidLatitude, InvalidLongitude,
      AlreadyExists, NotFound, Unauthorized }

\* C13: every failed Create or Close returns one of the enumerated error
\* kinds and leaves the whole ledger as it was.
C13_FailuresEnumeratedAndClean ==
    [][ ((CreateBy(last') \/ CloseBy(last')) /\ last'.result # Ok)
        => (last'.result \in EnumeratedErrors /\ store' = store) ]_vars

----------------------------------------------------------------------------
(* C14 *)

\* C14: a successful Create emits exactly one event, whose lat, lng and
\* timestamp are the lat, lng and verified_at of the record it stored; a
\* failed Create and every Close emit none.
C14_EventOnSuccessfulCreateOnly ==
    [][ IF last'.op = "Create" /\ last'.result = Ok
        THEN events' = << [ lat |-> store'[last'.account].lat,
                            lng |-> store'[last'.account].lng,
                            timestamp |-> store'[last'.account].verified_at ] >>
        ELSE events' = << >> ]_vars

\* A Create after the initial clock value succeeded and its one event is out.
C14_Witness ==
    /\ last.op = "Create" /\ last.result = Ok
    /\ clock > 1
    /\ Len(events) = 1
    /\ events[1].timestamp = clock
    /\ events[1].lat = LAT_MAX

----------------------------------------------------------------------------
(* C17 *)

\* The address of the seed list [b"proof"] alone.
GlobalSlot == ProofTag \o << BumpOf(ProofTag) >>

\* C17: the key of Close holds no merchant id: a Close of a live record
\* passes the address check exactly when the record sits in the one slot
\* derived from the tag alone, and is refused by that check for any other
\* address; the key of Create is the tag followed by the merchant_id.
C17_CloseAddressesGlobalSlot ==
    [][ /\ (CloseBy(last') /\ Live(store, last'.account))
            => /\ (last'.result = Ok) <=> (last'.account = GlobalSlot)
               /\ (last'.account # GlobalSlot) => last'.result = ConstraintSeeds
        /\ (last'.op = "Create" /\ last'.result = Ok)
            => \E b \in 0..255 :
                  last'.account = ProofTag \o last'.merchant_id \o << b >>
      ]_vars

\* The creator's signed Close of the live record of a 32-byte merchant_id
\* was refused by the address check.
C17_Witness ==
    /\ last.op = "Close" /\ last.signed /\ last.result = ConstraintSeeds
    /\ last.account = ProofAddress(Rep(MAX_MERCHANT_ID_LEN, 97))
    /\ Live(store, last.account)
    /\ creator[last.account] = last.caller

----------------------------------------------------------------------------
(* C18 *)

\* Merchant ids of the domain that are not empty.
NonEmptyIds == { m \in MerchantIds : Derivable(m) /\ Len(m) > 0 }

\* C18: a Close succeeds only where the record of the empty merchant_id is
\* live, and removes that record; the record of a non-empty merchant_id,
\* once live, is never removed or changed, and every Create for that
\* merchant_id fails from then on.
C18_NonEmptyIdIsAbsorbing ==
    [][ /\ (last'.op = "Close" /\ last'.result = Ok)
            => /\ last'.account = ProofAddress(<< >>)
               /\ Live(store, ProofAddress(<< >>))
               /\ ~Live(store', ProofAddress(<< >>))
        /\ \A m \in NonEmptyIds :
              Live(store, ProofAddress(m))
                  => /\ store'[ProofAddress(m)] = store[ProofAddress(m)]
                     /\ (last'.op = "Create" /\ last'.merchant_id = m)
                            => last'.result # Ok
      ]_vars

\* The record of the empty merchant_id has just been closed while the
\* record of a 32-byte merchant_id, created before, is still live.
C18_Witness ==
    /\ last.op = "Close" /\ last.result = Ok
    /\ ~Live(store, ProofAddress(<< >>))
    /\ \E m \in NonEmptyIds :
          Live(store, ProofAddress(m)) /\ store[ProofAddress(m)].verified_at < clock

----------------------------------------------------------------------------
(* C15 *)

Indices == 1..Len(inflight)

\* The instructions of the batch, by kind and outcome, on address a.
CreatesOn(a) == { i \in Indices : inflight[i].op = "Create" /\ inflight[i].account = a }
ClosesOn(a) == { i \in Indices : inflight[i].op = "Close" /\ inflight[i].account = a }
Succeeded(S) == { i \in S : inflight[i].outcome = Ok }
Executed(S) == { i \in S : inflight[i].outcome # Pending }

\* C15: of the Creates submitted together for one merchant_id against a free
\* key, with no Close among them, exactly one succeeds once one has run, all
\* the others fail with AlreadyExists, and the stored record is the
\* winner's.  With Closes among them every instruction still takes effect
\* whole: the successful Creates outnumber the successful Closes by one when
\* the record is live and by none when it is not, as in a sequential run.
C15_OneCreateWins ==
    \A a \in Addresses :
        /\ Cardinality(Succeeded(CreatesOn(a))) - Cardinality(Succeeded(ClosesOn(a)))
              = (IF Live(store, a) THEN 1 ELSE 0)
        /\ \A i \in Executed(CreatesOn(a)) :
              inflight[i].outcome \in { Ok, AlreadyExists }
        /\ (ClosesOn(a) = { } /\ Executed(CreatesOn(a)) # { })
              => /\ Cardinality(Succeeded(CreatesOn(a))) = 1
                 /\ \A i \in Succeeded(CreatesOn(a)) :
                       /\ store[a].lat = inflight[i].lat
                       /\ store[a].lng = inflight[i].lng
                       /\ creator[a] = inflight[i].caller

\* Three Creates for one merchant_id, with different coordinates and
\* callers among them, have all run: one won and two got AlreadyExists.
C15_Witness ==
    /\ Len(inflight) = 3
    /\ \A i \in Indices : inflight[i].op = "Create" /\ inflight[i].outcome # Pending
    /\ \E i, j \in Indices :
          /\ inflight[i].caller # inflight[j].caller
          /\ inflight[i].lat # inflight[j].lat
    /\ Cardinality({ i \in Indices : inflight[i].outcome = Ok }) = 1
    /\ Cardinality({ i \in Indices : inflight[i].outcome = AlreadyExists }) = 2

----------------------------------------------------------------------------
(* C16 *)

\* C16: derivation gives an address to every merchant_id of at most 32
\* bytes, the same address to the same merchant_id and different addresses
\* to different merchant_ids.
C16_DerivationInjective ==
    derived.done
        => /\ derived.ka.found <=> Len(derived.a) <= MAX_MERCHANT_ID_LEN
           /\ derived.kb.found <=> Len(derived.b) <= MAX_MERCHANT_ID_LEN
           /\ (derived.ka.found /\ derived.kb.found)
                 => ((derived.a = derived.b)
                        <=> (derived.ka.address = derived.kb.address))

\* Two merchant ids, one a proper prefix of the other, were given different
\* addresses.
C16_Witness ==
    /\ derived.done
    /\ Len(derived.a) = 1 /\ Len(derived.b) = 2
    /\ derived.b[1] = derived.a[1]
    /\ derived.ka.found /\ derived.kb.found
    /\ derived.ka.address # derived.kb.address

====
